---- MODULE Spec2Model ----
(***************************************************************************)
(* A model of src/mpmc_ptr_ring.h: the lock-free multi-producer /          *)
(* multi-consumer pointer ring.  Every access to shared memory             *)
(* (atomic_long_read, atomic_long_cmpxchg, atomic_long_set,                *)
(* atomic_long_inc, READ_ONCE, WRITE_ONCE) is one step of the thread that  *)
(* performs it; the code brackets every access with full barriers (mb()),  *)
(* so the steps interleave sequentially consistently.                      *)
(***************************************************************************)
EXTENDS Integers, Sequences, FiniteSets, TLC

(* ------------------------------ bounds -------------------------------- *)

\* produce calls made in a run, by all producers together
MaxCalls == 3
\* the live ring's size is 2^k for some k in 0..MaxLogSize
MaxLogSize == 2
\* mpmc_ptr_ring_init is tried with every size in -MinInitSize..MaxInitSize
MaxInitSize == 1025
MinInitSize == 3

(* ------------------------ threads and values -------------------------- *)

\* the thread that constructs the ring and tears it down
Owner == 0
Producers == {1, 2}
Consumers == {3, 4}
\* the one consumer of a single-consumer situation
SoleConsumer == 3
\* the thread that polls mpmc_ptr_ring_empty (it reads no state of its caller,
\* so which thread polls makes no difference)
Poller == 3
Threads == Producers \cup Consumers \cup {Owner}

NULL == 0
\* the distinct non-null pointer passed by the k-th produce call of the run
Val(k) == k

ENOSPC == 28
EINVAL == 22
ENOMEM == 12

(* --------------------------- machine words ---------------------------- *)

\* size_t arithmetic is modular.  The counters of the model stay far below
\* the modulus, so the only wrap that occurs is that of p - c with c > p.
WordModulus == 2^30

\* a - b in size_t
USub(a, b) == (a - b) % WordModulus

RECURSIVE BitAnd(_, _)
\* a & b, for a, b >= 0
BitAnd(a, b) ==
    IF a = 0 \/ b = 0 THEN 0
    ELSE (a % 2) * (b % 2) + 2 * BitAnd(a \div 2, b \div 2)

\* mutant of is_power_of_2: the test n != 0 is missing
is_power_of_2_or_zero(n) ==
    LET u == n % WordModulus
    IN  BitAnd(u, u - 1) = 0

\* is_power_of_2() of the kernel: n != 0 && (n & (n - 1)) == 0, on the
\* argument converted to unsigned long
is_power_of_2(n) ==
    LET u == n % WordModulus
    IN  u # 0 /\ BitAnd(u, u - 1) = 0

(* ------------------------------- state -------------------------------- *)

VARIABLES
    r,          \* struct mpmc_ptr_ring: queue, size, consumer_head,
                \* producer_head, producer_tail
    phase,      \* "uninit", "failed", "live", "cleanup", "freed"
    sc,         \* TRUE: a single-consumer situation (only SoleConsumer consumes)
    pc,         \* per thread: the line of the code it is about to execute
    lp,         \* per thread: the local p (new_p is folded into it)
    lc,         \* per thread: the local c
    lptr,       \* per thread: ptr (produce), element (consume, peek)
    op,         \* per thread: the function called last
    ret,        \* per thread: what the last call returned
    calls,      \* produce calls started
    peeked,     \* the last consumer operation was a peek that returned a value
    destroy,    \* cleanup's destroy argument is non-null
    init_arg,   \* mpmc_ptr_ring_init's size argument, and whether kcalloc
                \* succeeds when called
    init_ret,   \* what mpmc_ptr_ring_init returned
    allocs,     \* successful kcalloc calls
    frees,      \* kfree calls
    claimed,    \* history: the value of each claimed logical index, in order
    consumed,   \* history: [idx, val] of each successful consume, in order
    returned,   \* history: the values whose produce call returned 0
    destroyed,  \* history: the values destroy() was called on, in order
    held,       \* history: the values the ring held when cleanup began
    wrote,      \* history, per thread: the current call changed the ring
    emptyAll,   \* history, per thread: consumer_head = producer_tail held at
                \* every instant of the current call
    peekVal,    \* history: the element the last peek returned, NULL when none
                \* or when consumer_head has moved since
    fullSeen,   \* history, per producer: producer_head - consumer_head was
                \* capacity - 1 at some instant of the current call (kept
                \* after the call when it returned -ENOSPC)
    emptySeen   \* history: consumer_head = producer_tail held at some instant
                \* of the poller's current mpmc_ptr_ring_empty call (kept
                \* after the call when it returned true)

ring_vars == <<r, phase, sc, init_arg, init_ret, allocs, frees>>
local_vars == <<pc, lp, lc, lptr, op, ret, calls, peeked, destroy>>
hist_vars == <<claimed, consumed, returned, destroyed, held, wrote, emptyAll,
               peekVal, fullSeen, emptySeen>>
vars == <<ring_vars, local_vars, hist_vars>>

\* r->size - 1
Mask == r.size - 1

\* the slot of logical index i: queue[i & mask]
Slot(i) == BitAnd(i, Mask) + 1

\* the ring as it is before mpmc_ptr_ring_init: nothing of it is initialized
Poison == 7
Uninit == [queue |-> <<>>, size |-> Poison, consumer_head |-> Poison,
           producer_head |-> Poison, producer_tail |-> Poison]

(* ------------------------- construction ------------------------------- *)

\* mpmc_ptr_ring_init(r, size, gfp) on ring r0; allocOk: kcalloc succeeds.
\* The result: the return value, the ring, whether storage was obtained.
InitRing(r0, size, allocOk) ==
    IF ~is_power_of_2(size)
    THEN [ret |-> -EINVAL, ring |-> r0, alloc |-> FALSE]
    ELSE LET r1 == [r0 EXCEPT !.size = size, !.consumer_head = 0,
                              !.producer_head = 0, !.producer_tail = 0]
         IN  IF allocOk
             THEN [ret |-> 0, alloc |-> TRUE,
                   ring |-> [r1 EXCEPT !.queue = [i \in 1..size |-> NULL]]]
             ELSE [ret |-> -ENOMEM, alloc |-> FALSE,
                   ring |-> [r1 EXCEPT !.queue = <<>>]]

mpmc_ptr_ring_init(size, allocOk) ==
    /\ phase = "uninit"
    /\ LET res == InitRing(r, size, allocOk)
       IN  /\ r' = res.ring
           /\ init_arg' = [size |-> size, ok |-> allocOk]
           /\ init_ret' = res.ret
           /\ allocs' = IF res.alloc THEN allocs + 1 ELSE allocs
           /\ phase' = IF res.ret = 0 THEN "live" ELSE "failed"
    /\ UNCHANGED <<sc, frees, local_vars, hist_vars>>

(* ------------------------ thread bookkeeping -------------------------- *)

\* thread t moves to line l with locals p, c, ptr
Goto(t, l, p, c, ptr) ==
    /\ pc' = [pc EXCEPT ![t] = l]
    /\ lp' = [lp EXCEPT ![t] = p]
    /\ lc' = [lc EXCEPT ![t] = c]
    /\ lptr' = [lptr EXCEPT ![t] = ptr]

\* thread t's call returns v: its locals die; cleanup's consume returns to
\* the loop of line 164
Return(t, v) ==
    /\ Goto(t, IF t = Owner THEN "cl164" ELSE "idle", 0, 0, NULL)
    /\ ret' = [ret EXCEPT ![t] = v]

\* thread t enters function f with this step when it is idle
Enter(t, f) ==
    op' = [op EXCEPT ![t] = IF pc[t] = "idle" THEN f ELSE @]

\* consumers that run: all of them, or the sole consumer
ActiveConsumer(t) == t \in Consumers /\ (sc => t = SoleConsumer)

\* the owner may tear the ring down: no call is in progress
Quiesced == \A t \in Producers \cup Consumers : pc[t] = "idle"

(* ----------------------- mpmc_ptr_ring_produce ------------------------ *)

\* mutant of HasRoom: the comparison is off by one, (p - c) <= mask
HasRoomOffByOne(p, c) == USub(p, c) <= Mask

\* mutant of HasRoom: the capacity test is missing
HasRoomAlways(p, c) == TRUE

\* line 78: (p - c) < mask
HasRoom(p, c) == USub(p, c) < Mask

\* line 71: p = atomic_long_read(&r->producer_head)
Produce71(t) ==
    /\ phase = "live" /\ t \in Producers
    /\ pc[t] = "idle" /\ calls < MaxCalls
    /\ calls' = calls + 1
    /\ Goto(t, "p75", r.producer_head, 0, Val(calls + 1))
    /\ Enter(t, "produce")
    /\ ret' = [ret EXCEPT ![t] = 0]
    /\ UNCHANGED <<ring_vars, peeked, destroy>>
    /\ UNCHANGED <<claimed, consumed, returned, destroyed, held>>

\* lines 75-78: c = atomic_long_read(&r->consumer_head), and the test of it
Produce75(t) ==
    /\ pc[t] = "p75"
    /\ Goto(t, IF HasRoom(lp[t], r.consumer_head) THEN "p79" ELSE "p85",
            lp[t], 0, lptr[t])
    /\ UNCHANGED <<ring_vars, op, ret, calls, peeked, destroy>>
    /\ UNCHANGED <<claimed, consumed, returned, destroyed, held>>

\* mutant of Produce79: producer_head is stored, not compared and swapped
Produce79NoCompare(t) ==
    /\ pc[t] = "p79"
    /\ r' = [r EXCEPT !.producer_head = lp[t] + 1]
    /\ claimed' = Append(claimed, lptr[t])
    /\ Goto(t, "p96", lp[t], 0, lptr[t])
    /\ UNCHANGED <<phase, sc, init_arg, init_ret, allocs, frees>>
    /\ UNCHANGED <<op, ret, calls, peeked, destroy>>
    /\ UNCHANGED <<consumed, returned, destroyed, held>>

\* lines 79-80: atomic_long_cmpxchg(&r->producer_head, p, p + 1) == p; when
\* it fails the loop goes round with p as it was
Produce79(t) ==
    /\ pc[t] = "p79"
    /\ IF r.producer_head = lp[t]
       THEN /\ r' = [r EXCEPT !.producer_head = lp[t] + 1]
            /\ claimed' = Append(claimed, lptr[t])
            /\ Goto(t, "p96", lp[t], 0, lptr[t])
       ELSE /\ Goto(t, "p75", lp[t], 0, lptr[t])
            /\ UNCHANGED <<r, claimed>>
    /\ UNCHANGED <<phase, sc, init_arg, init_ret, allocs, frees>>
    /\ UNCHANGED <<op, ret, calls, peeked, destroy>>
    /\ UNCHANGED <<consumed, returned, destroyed, held>>

\* mutant of Produce85: the value is stored into its slot before the ring is
\* found full
Produce85Stores(t) ==
    /\ pc[t] = "p85"
    /\ IF r.producer_head = lp[t]
       THEN /\ r' = [r EXCEPT !.queue[Slot(lp[t])] = lptr[t]]
            /\ Return(t, -ENOSPC)
       ELSE /\ Goto(t, "p75", r.producer_head, 0, lptr[t])
            /\ UNCHANGED <<r, ret>>
    /\ UNCHANGED <<phase, sc, init_arg, init_ret, allocs, frees>>
    /\ UNCHANGED <<op, calls, peeked, destroy>>
    /\ UNCHANGED <<claimed, consumed, returned, destroyed, held>>

\* mutant of Produce85: -ENOSPC is returned without looking at
\* producer_head again
Produce85NoRecheck(t) ==
    /\ pc[t] = "p85"
    /\ Return(t, -ENOSPC)
    /\ UNCHANGED <<ring_vars, op, calls, peeked, destroy>>
    /\ UNCHANGED <<claimed, consumed, returned, destroyed, held>>

\* lines 85-91: new_p = atomic_long_read(&r->producer_head);
\* if (new_p == p) return -ENOSPC; p = new_p
Produce85(t) ==
    /\ pc[t] = "p85"
    /\ IF r.producer_head = lp[t]
       THEN /\ Return(t, -ENOSPC)
       ELSE /\ Goto(t, "p75", r.producer_head, 0, lptr[t])
            /\ UNCHANGED ret
    /\ UNCHANGED <<ring_vars, op, calls, peeked, destroy>>
    /\ UNCHANGED <<claimed, consumed, returned, destroyed, held>>

\* mutant of Produce96: the value goes into the slot after the claimed one
Produce96Next(t) ==
    /\ pc[t] = "p96"
    /\ r' = [r EXCEPT !.queue[Slot(lp[t] + 1)] = lptr[t]]
    /\ Goto(t, "p100", lp[t], 0, lptr[t])
    /\ UNCHANGED <<phase, sc, init_arg, init_ret, allocs, frees>>
    /\ UNCHANGED <<op, ret, calls, peeked, destroy>>
    /\ UNCHANGED <<claimed, consumed, returned, destroyed, held>>

\* line 96: WRITE_ONCE(r->queue[p & mask], ptr)
Produce96(t) ==
    /\ pc[t] = "p96"
    /\ r' = [r EXCEPT !.queue[Slot(lp[t])] = lptr[t]]
    /\ Goto(t, "p100", lp[t], 0, lptr[t])
    /\ UNCHANGED <<phase, sc, init_arg, init_ret, allocs, frees>>
    /\ UNCHANGED <<op, ret, calls, peeked, destroy>>
    /\ UNCHANGED <<claimed, consumed, returned, destroyed, held>>

\* mutant of Produce100: the producer does not wait for its turn to commit
Produce100NoWait(t) ==
    /\ pc[t] = "p100"
    /\ Goto(t, "p104", lp[t], 0, lptr[t])
    /\ UNCHANGED <<ring_vars, op, ret, calls, peeked, destroy>>
    /\ UNCHANGED <<claimed, consumed, returned, destroyed, held>>

\* lines 100-101: while (atomic_long_read(&r->producer_tail) != p) cpu_relax()
Produce100(t) ==
    /\ pc[t] = "p100"
    /\ Goto(t, IF r.producer_tail # lp[t] THEN "p100" ELSE "p104",
            lp[t], 0, lptr[t])
    /\ UNCHANGED <<ring_vars, op, ret, calls, peeked, destroy>>
    /\ UNCHANGED <<claimed, consumed, returned, destroyed, held>>

\* lines 104-107: atomic_long_set(&r->producer_tail, p + 1); return 0
Produce104(t) ==
    /\ pc[t] = "p104"
    /\ r' = [r EXCEPT !.producer_tail = lp[t] + 1]
    /\ returned' = returned \cup {lptr[t]}
    /\ Return(t, 0)
    /\ UNCHANGED <<phase, sc, init_arg, init_ret, allocs, frees>>
    /\ UNCHANGED <<op, calls, peeked, destroy>>
    /\ UNCHANGED <<claimed, consumed, destroyed, held>>

mpmc_ptr_ring_produce(t) ==
    \/ Produce71(t)
    \/ Produce75(t)
    \/ Produce79(t)
    \/ Produce85(t)
    \/ Produce96(t)
    \/ Produce100(t)
    \/ Produce104(t)

(* ----------------------- mpmc_ptr_ring_consume ------------------------ *)

\* line 118: c = atomic_long_read(&r->consumer_head); the first step of a
\* call by an idle consumer, and of every turn of the loop
Consume118(t) ==
    /\ \/ pc[t] = "c118"
       \/ pc[t] = "idle" /\ phase = "live" /\ ActiveConsumer(t)
    /\ Goto(t, "c120", 0, r.consumer_head, NULL)
    /\ Enter(t, "consume")
    /\ ret' = [ret EXCEPT ![t] = NULL]
    /\ peeked' = IF t = Owner THEN peeked ELSE FALSE
    /\ UNCHANGED <<ring_vars, calls, destroy>>
    /\ UNCHANGED <<claimed, consumed, returned, destroyed, held>>

\* mutant of Consume120: the emptiness test is p < c
Consume120Less(t) ==
    /\ pc[t] = "c120"
    /\ IF r.producer_tail < lc[t]
       THEN /\ Return(t, NULL)
       ELSE /\ Goto(t, "c127", 0, lc[t], NULL)
            /\ UNCHANGED ret
    /\ UNCHANGED <<ring_vars, op, calls, peeked, destroy>>
    /\ UNCHANGED <<claimed, consumed, returned, destroyed, held>>

\* lines 120-125: p = atomic_long_read(&r->producer_tail);
\* if (p == c) return NULL
Consume120(t) ==
    /\ pc[t] = "c120"
    /\ IF r.producer_tail = lc[t]
       THEN /\ Return(t, NULL)
       ELSE /\ Goto(t, "c127", 0, lc[t], NULL)
            /\ UNCHANGED ret
    /\ UNCHANGED <<ring_vars, op, calls, peeked, destroy>>
    /\ UNCHANGED <<claimed, consumed, returned, destroyed, held>>

\* line 127: element = READ_ONCE(r->queue[c & mask])
Consume127(t) ==
    /\ pc[t] = "c127"
    /\ Goto(t, "c131", 0, lc[t], r.queue[Slot(lc[t])])
    /\ UNCHANGED <<ring_vars, op, ret, calls, peeked, destroy>>
    /\ UNCHANGED <<claimed, consumed, returned, destroyed, held>>

\* mutant of Consume131: consumer_head is incremented without comparing it
\* with c (atomic_long_inc in place of atomic_long_cmpxchg)
Consume131NoCompare(t) ==
    /\ pc[t] = "c131"
    /\ r' = [r EXCEPT !.consumer_head = @ + 1]
    /\ consumed' = Append(consumed, [idx |-> lc[t], val |-> lptr[t]])
    /\ Return(t, lptr[t])
    /\ UNCHANGED <<phase, sc, init_arg, init_ret, allocs, frees>>
    /\ UNCHANGED <<op, calls, peeked, destroy>>
    /\ UNCHANGED <<claimed, returned, destroyed, held>>

\* lines 131-137: old_c = atomic_long_cmpxchg(&r->consumer_head, c, c + 1);
\* if (old_c == c) return element; otherwise the loop goes round
Consume131(t) ==
    /\ pc[t] = "c131"
    /\ IF r.consumer_head = lc[t]
       THEN /\ r' = [r EXCEPT !.consumer_head = lc[t] + 1]
            /\ consumed' = Append(consumed, [idx |-> lc[t], val |-> lptr[t]])
            /\ Return(t, lptr[t])
       ELSE /\ Goto(t, "c118", 0, 0, NULL)
            /\ UNCHANGED <<r, consumed, ret>>
    /\ UNCHANGED <<phase, sc, init_arg, init_ret, allocs, frees>>
    /\ UNCHANGED <<op, calls, peeked, destroy>>
    /\ UNCHANGED <<claimed, returned, destroyed, held>>

mpmc_ptr_ring_consume(t) ==
    \/ Consume118(t)
    \/ Consume120(t)
    \/ Consume127(t)
    \/ Consume131(t)

(* ------------------------ mpmc_ptr_ring_empty ------------------------- *)

\* what is_empty returns, as a number
True == 1
False == 0

\* mutant of Empty58: producer_head is read in place of producer_tail
Empty58ReadsHead(t) ==
    /\ pc[t] = "idle" /\ phase = "live" /\ t = Poller
    /\ Goto(t, "e59", r.producer_head, 0, NULL)
    /\ Enter(t, "empty")
    /\ ret' = [ret EXCEPT ![t] = NULL]
    /\ UNCHANGED <<ring_vars, calls, peeked, destroy>>
    /\ UNCHANGED <<claimed, consumed, returned, destroyed, held>>

\* line 58: ptail = atomic_long_read(&r->producer_tail)
Empty58(t) ==
    /\ pc[t] = "idle" /\ phase = "live" /\ t = Poller
    /\ Goto(t, "e59", r.producer_tail, 0, NULL)
    /\ Enter(t, "empty")
    /\ ret' = [ret EXCEPT ![t] = NULL]
    /\ UNCHANGED <<ring_vars, calls, peeked, destroy>>
    /\ UNCHANGED <<claimed, consumed, returned, destroyed, held>>

\* lines 59-63: chead = atomic_long_read(&r->consumer_head);
\* return chead == ptail
Empty59(t) ==
    /\ pc[t] = "e59"
    /\ Return(t, IF r.consumer_head = lp[t] THEN True ELSE False)
    /\ UNCHANGED <<ring_vars, op, calls, peeked, destroy>>
    /\ UNCHANGED <<claimed, consumed, returned, destroyed, held>>

mpmc_ptr_ring_empty(t) ==
    \/ Empty58(t)
    \/ Empty59(t)

(* ------------- __mpmc_ptr_ring_peek, __mpmc_ptr_ring_discard_one ------ *)

\* line 183: c = atomic_long_read(&r->consumer_head); only the sole consumer
\* of a single-consumer situation calls peek
Peek183(t) ==
    /\ pc[t] = "idle" /\ phase = "live" /\ sc /\ t = SoleConsumer
    /\ Goto(t, "k185", 0, r.consumer_head, NULL)
    /\ Enter(t, "peek")
    /\ ret' = [ret EXCEPT ![t] = NULL]
    /\ peeked' = FALSE
    /\ UNCHANGED <<ring_vars, calls, destroy>>
    /\ UNCHANGED <<claimed, consumed, returned, destroyed, held>>

\* lines 185-191: p = atomic_long_read(&r->producer_tail);
\* if (c == p) return NULL
Peek185(t) ==
    /\ pc[t] = "k185"
    /\ IF lc[t] = r.producer_tail
       THEN /\ Return(t, NULL)
       ELSE /\ Goto(t, "k194", 0, lc[t], NULL)
            /\ UNCHANGED ret
    /\ UNCHANGED <<ring_vars, op, calls, peeked, destroy>>
    /\ UNCHANGED <<claimed, consumed, returned, destroyed, held>>

\* mutant of Peek194: the peek returns the newest committed element
Peek194Newest(t) ==
    /\ pc[t] = "k194"
    /\ Return(t, r.queue[Slot(r.producer_tail - 1)])
    /\ peeked' = TRUE
    /\ UNCHANGED <<ring_vars, op, calls, destroy>>
    /\ UNCHANGED <<claimed, consumed, returned, destroyed, held>>

\* mutant of Peek194: the peek removes the element it returns
Peek194Removes(t) ==
    /\ pc[t] = "k194"
    /\ Return(t, r.queue[Slot(lc[t])])
    /\ r' = [r EXCEPT !.consumer_head = @ + 1]
    /\ peeked' = TRUE
    /\ UNCHANGED <<phase, sc, init_arg, init_ret, allocs, frees>>
    /\ UNCHANGED <<op, calls, destroy>>
    /\ UNCHANGED <<claimed, consumed, returned, destroyed, held>>

\* lines 194-197: element = READ_ONCE(r->queue[c & mask]); return element
Peek194(t) ==
    /\ pc[t] = "k194"
    /\ Return(t, r.queue[Slot(lc[t])])
    /\ peeked' = TRUE
    /\ UNCHANGED <<ring_vars, op, calls, destroy>>
    /\ UNCHANGED <<claimed, consumed, returned, destroyed, held>>

__mpmc_ptr_ring_peek(t) ==
    \/ Peek183(t)
    \/ Peek185(t)
    \/ Peek194(t)

\* line 210: atomic_long_inc(&r->consumer_head); the sole consumer calls it
\* only when its last operation was a peek that returned an element
__mpmc_ptr_ring_discard_one(t) ==
    /\ pc[t] = "idle" /\ phase = "live" /\ sc /\ t = SoleConsumer
    /\ peeked
    /\ r' = [r EXCEPT !.consumer_head = @ + 1]
    /\ peeked' = FALSE
    /\ op' = [op EXCEPT ![t] = "discard"]
    /\ ret' = [ret EXCEPT ![t] = NULL]
    /\ UNCHANGED <<phase, sc, init_arg, init_ret, allocs, frees>>
    /\ UNCHANGED <<pc, lp, lc, lptr, calls, destroy>>
    /\ UNCHANGED <<claimed, consumed, returned, destroyed, held>>

(* ----------------------- mpmc_ptr_ring_cleanup ------------------------ *)

\* the values passed for the committed, unconsumed logical indices, oldest
\* first
Held == SubSeq(claimed, r.consumer_head + 1, r.producer_tail)

\* mutant of Cleanup163: the ring is drained whether or not there is a
\* destructor
Cleanup163Drains(d) ==
    /\ phase = "live" /\ Quiesced /\ pc[Owner] = "idle"
    /\ phase' = "cleanup"
    /\ destroy' = d
    /\ held' = Held
    /\ pc' = [pc EXCEPT ![Owner] = "c118"]
    /\ op' = [op EXCEPT ![Owner] = "cleanup"]
    /\ UNCHANGED <<r, sc, init_arg, init_ret, allocs, frees>>
    /\ UNCHANGED <<lp, lc, lptr, ret, calls, peeked>>
    /\ UNCHANGED <<claimed, consumed, returned, destroyed>>

\* line 163: if (destroy): the owner calls cleanup on the quiesced ring,
\* with a destructor (d) or without
Cleanup163(d) ==
    /\ phase = "live" /\ Quiesced /\ pc[Owner] = "idle"
    /\ phase' = "cleanup"
    /\ destroy' = d
    /\ held' = Held
    /\ pc' = [pc EXCEPT ![Owner] = IF d THEN "c118" ELSE "cl166"]
    /\ op' = [op EXCEPT ![Owner] = "cleanup"]
    /\ UNCHANGED <<r, sc, init_arg, init_ret, allocs, frees>>
    /\ UNCHANGED <<lp, lc, lptr, ret, calls, peeked>>
    /\ UNCHANGED <<claimed, consumed, returned, destroyed>>

\* mutant of Cleanup164: an if in place of the while, one element is drained
Cleanup164Once ==
    /\ pc[Owner] = "cl164"
    /\ IF ret[Owner] # NULL
       THEN /\ destroyed' = Append(destroyed, ret[Owner])
            /\ pc' = [pc EXCEPT ![Owner] = "cl166"]
       ELSE /\ pc' = [pc EXCEPT ![Owner] = "cl166"]
            /\ UNCHANGED destroyed
    /\ UNCHANGED <<ring_vars, lp, lc, lptr, op, ret, calls, peeked, destroy>>
    /\ UNCHANGED <<claimed, consumed, returned, held>>

\* lines 164-165: while ((ptr = mpmc_ptr_ring_consume(r))) destroy(ptr)
Cleanup164 ==
    /\ pc[Owner] = "cl164"
    /\ IF ret[Owner] # NULL
       THEN /\ destroyed' = Append(destroyed, ret[Owner])
            /\ pc' = [pc EXCEPT ![Owner] = "c118"]
       ELSE /\ pc' = [pc EXCEPT ![Owner] = "cl166"]
            /\ UNCHANGED destroyed
    /\ UNCHANGED <<ring_vars, lp, lc, lptr, op, ret, calls, peeked, destroy>>
    /\ UNCHANGED <<claimed, consumed, returned, held>>

\* line 166: kfree(r->queue)
Cleanup166 ==
    /\ pc[Owner] = "cl166"
    /\ frees' = frees + 1
    /\ phase' = "freed"
    /\ pc' = [pc EXCEPT ![Owner] = "idle"]
    /\ UNCHANGED <<r, sc, init_arg, init_ret, allocs>>
    /\ UNCHANGED <<lp, lc, lptr, op, ret, calls, peeked, destroy, hist_vars>>

mpmc_ptr_ring_cleanup ==
    \/ \E d \in BOOLEAN : Cleanup163(d)
    \/ Cleanup164
    \/ Cleanup166

(* ------------------------- history variables -------------------------- *)

\* consumer_head = producer_tail in ring q
Emp(q) == q.consumer_head = q.producer_tail

\* no unclaimed free slot in ring q: producer_head - consumer_head is
\* capacity - 1
Full(q) == q.producer_head - q.consumer_head = q.size - 1

\* what a step of thread t records: that t's call changed the ring, for
\* every consumer's call in progress whether the ring stayed empty, what a
\* peek returned, for every producer's call in progress whether the ring
\* was full, and for the poller's mpmc_ptr_ring_empty call in progress whether
\* the ring was empty
Observe(t) ==
    /\ wrote' = [wrote EXCEPT ![t] = (pc[t] # "idle" /\ @) \/ r' # r]
    /\ emptyAll' = [u \in Threads |->
           IF u \notin Consumers THEN FALSE
           ELSE IF u = t
           THEN (IF pc[t] = "idle" THEN Emp(r) ELSE emptyAll[t]) /\ Emp(r')
           ELSE IF pc[u] # "idle" THEN emptyAll[u] /\ Emp(r')
           ELSE emptyAll[u]]
    /\ peekVal' =
           IF r'.consumer_head # r.consumer_head THEN NULL
           ELSE IF op'[t] = "peek" /\ pc[t] # "idle" /\ pc'[t] = "idle"
           THEN ret'[t]
           ELSE peekVal
    /\ fullSeen' = [u \in Threads |->
           IF u \notin Producers THEN FALSE
           ELSE IF u = t /\ pc'[t] = "idle"
           THEN (fullSeen[t] \/ Full(r')) /\ ret'[t] = -ENOSPC
           ELSE IF u = t /\ pc[t] = "idle" THEN Full(r) \/ Full(r')
           ELSE IF pc[u] # "idle" THEN fullSeen[u] \/ Full(r')
           ELSE fullSeen[u]]
    /\ emptySeen' =
           IF t = Poller /\ pc[t] = "idle" THEN op'[t] = "empty" /\ Emp(r)
           ELSE IF t = Poller /\ pc[t] = "e59"
           THEN (emptySeen \/ Emp(r')) /\ ret'[t] = True
           ELSE IF pc[Poller] = "e59" THEN emptySeen \/ Emp(r')
           ELSE emptySeen

(* --------------------------- specifications --------------------------- *)

Init ==
    /\ r = Uninit
    /\ phase = "uninit"
    /\ sc \in BOOLEAN
    /\ pc = [t \in Threads |-> "idle"]
    /\ lp = [t \in Threads |-> 0]
    /\ lc = [t \in Threads |-> 0]
    /\ lptr = [t \in Threads |-> NULL]
    /\ op = [t \in Threads |-> "none"]
    /\ ret = [t \in Threads |-> 0]
    /\ calls = 0
    /\ peeked = FALSE
    /\ destroy = FALSE
    /\ init_arg = [size |-> 0, ok |-> FALSE]
    /\ init_ret = 0
    /\ allocs = 0
    /\ frees = 0
    /\ claimed = <<>>
    /\ consumed = <<>>
    /\ returned = {}
    /\ destroyed = <<>>
    /\ held = <<>>
    /\ wrote = [t \in Threads |-> FALSE]
    /\ emptyAll = [t \in Threads |-> FALSE]
    /\ peekVal = NULL
    /\ fullSeen = [t \in Threads |-> FALSE]
    /\ emptySeen = FALSE

\* the sizes the live ring is constructed with, and sizes init refuses
LiveSizes == {2^k : k \in 0..MaxLogSize} \cup {0, 3}

\* a step of a thread that uses the ring
ThreadStep(t) ==
    /\ \/ mpmc_ptr_ring_produce(t)
       \/ mpmc_ptr_ring_consume(t)
       \/ mpmc_ptr_ring_empty(t)
       \/ __mpmc_ptr_ring_peek(t)
       \/ __mpmc_ptr_ring_discard_one(t)
    /\ Observe(t)

\* a step of the owner's teardown
OwnerStep ==
    /\ mpmc_ptr_ring_cleanup
    /\ UNCHANGED <<wrote, emptyAll, peekVal, fullSeen, emptySeen>>

Next ==
    \/ \E size \in LiveSizes, ok \in BOOLEAN : mpmc_ptr_ring_init(size, ok)
    \/ \E t \in Threads : ThreadStep(t)
    \/ OwnerStep

Spec == Init /\ [][Next]_vars

\* Sequential runs: a thread takes a step only while no other thread is in
\* a call.
SeqStep(t) ==
    /\ \A u \in Threads \ {t} : pc[u] = "idle"
    /\ ThreadStep(t)

NextSeq ==
    \/ \E size \in LiveSizes, ok \in BOOLEAN : mpmc_ptr_ring_init(size, ok)
    \/ \E t \in Threads : SeqStep(t)
    \/ OwnerStep

SpecSeq == Init /\ [][NextSeq]_vars

\* Construction alone, over a range of sizes.
InitSizes == (-MinInitSize)..MaxInitSize

NextInit ==
    \E size \in InitSizes, ok \in BOOLEAN : mpmc_ptr_ring_init(size, ok)

SpecInit == Init /\ [][NextInit]_vars

\* Producers alone, no consumer ever running; a producer that is in a call
\* keeps executing it (weak fairness of its steps).
ProducerStep(t) ==
    /\ mpmc_ptr_ring_produce(t)
    /\ Observe(t)

NextProducers ==
    \/ \E size \in LiveSizes, ok \in BOOLEAN : mpmc_ptr_ring_init(size, ok)
    \/ \E t \in Producers : ProducerStep(t)

SpecProducers ==
    /\ Init
    /\ [][NextProducers]_vars
    /\ \A t \in Producers : WF_vars(ProducerStep(t))

(* ------------------------------ claims -------------------------------- *)

\* the ring has been constructed
Constructed == phase \in {"live", "cleanup", "freed"}

\* the values the successful consume calls returned
ConsumedVals == {consumed[k].val : k \in 1..Len(consumed)}

\* no producer is in a call
ProducersIdle == \A t \in Producers : pc[t] = "idle"

\* C1: FIFO.  The successful consume calls, in the order of the
\* consumer_head values they advanced, return the values of the produce
\* calls in the order of the logical indices they claimed: the k-th
\* successful consume removed logical index k-1 and returned the value passed
\* for that index (nothing reordered, duplicated or dropped), and once every
\* call has returned and the ring is drained the two sequences are equal.
\* (With the sole consumer, indices may also be removed by discard_one, so
\* the consumes return a subsequence.)
C1_Fifo ==
    /\ \A k \in 1..Len(consumed) :
          /\ consumed[k].idx < Len(claimed)
          /\ consumed[k].val = claimed[consumed[k].idx + 1]
    /\ \A j, k \in 1..Len(consumed) : j < k => consumed[j].idx < consumed[k].idx
    /\ ~sc => \A k \in 1..Len(consumed) : consumed[k].idx = k - 1
    /\ (~sc /\ Constructed /\ Quiesced /\ Emp(r))
          => [k \in 1..Len(consumed) |-> consumed[k].val] = claimed

\* C1's case: on a ring of two slots three values went through, the third
\* through the slot of the first, taken by racing consumers
C1_Witness ==
    /\ ~sc /\ phase = "live" /\ r.size = 2
    /\ Len(consumed) = 3
    /\ consumed[3].val = Val(3)
    /\ \E t \in Consumers : pc[t] = "c131" /\ lc[t] < r.consumer_head

\* C2: no duplicate delivery.  No two successful consume calls removed the
\* same logical index or returned the same item, there are never more
\* successful consumes than committed items, and with several consumers
\* racing each advance of consumer_head is exactly one successful consume: so
\* when the consumers have drained a backlog of M items with no producer
\* running, exactly M consume calls have returned a value.
C2_NoDuplicate ==
    /\ \A j, k \in 1..Len(consumed) :
          j # k => /\ consumed[j].idx # consumed[k].idx
                   /\ consumed[j].val # consumed[k].val
    /\ Constructed => Len(consumed) <= r.producer_tail
    /\ (~sc /\ Constructed) => Len(consumed) = r.consumer_head
    /\ (~sc /\ Constructed /\ Quiesced /\ Emp(r))
          => Len(consumed) = r.producer_tail

\* C2's case: no producer runs any more, a backlog of two items has been
\* consumed, and one of two racing consumers is about to lose the
\* consumer_head CAS for an index the other one took
C2_Witness ==
    /\ ~sc /\ phase = "live" /\ ProducersIdle /\ calls = MaxCalls
    /\ r.producer_tail >= 2 /\ Len(consumed) >= 1
    /\ \E t, u \in Consumers :
          /\ t # u
          /\ pc[t] = "c131" /\ lc[t] + 1 = r.consumer_head
          /\ pc[u] = "idle" /\ op[u] = "consume" /\ ret[u] = claimed[lc[t] + 1]

\* C3: no lost delivery.  Once every produce call has returned and the
\* consumer has drained the ring, the values the consume calls returned are
\* exactly the values whose produce call returned 0, each once; before that,
\* consume returns only such values.
C3_NoLoss ==
    /\ ConsumedVals \subseteq returned
    /\ (~sc /\ Constructed /\ ProducersIdle /\ Emp(r))
          => /\ ConsumedVals = returned
             /\ Len(consumed) = Cardinality(returned)

\* C3's case: two producers were between claim and commit at once, one
\* produce call was refused, and the drained ring has delivered the rest
C3_Witness ==
    /\ ~sc /\ phase = "live" /\ ProducersIdle /\ Emp(r)
    /\ calls = MaxCalls
    /\ Cardinality(returned) = 2 /\ Len(consumed) = 2
    /\ \E t \in Producers : ret[t] = -ENOSPC

\* C4: capacity bound, in sequential runs.  A produce call returns -ENOSPC
\* exactly when the ring holds size - 1 items and 0 exactly when it holds
\* fewer: so on an empty ring of size C the first C-1 calls succeed, the next
\* is refused, and after one consume the next succeeds.
C4_CapacityBound ==
    [][\A t \in Producers :
          (pc[t] # "idle" /\ pc'[t] = "idle")
             => /\ ret'[t] = -ENOSPC
                     <=> r.producer_tail - r.consumer_head = r.size - 1
                /\ ret'[t] = 0
                     <=> r.producer_tail - r.consumer_head < r.size - 1]_vars

\* C4's case: a ring of two slots took one value, refused the next, and
\* after one consume took another
C4_Witness ==
    /\ phase = "live" /\ r.size = 2 /\ Quiesced
    /\ calls = 3 /\ Len(claimed) = 2 /\ Len(consumed) = 1
    /\ r.producer_tail - r.consumer_head = 1
    /\ \E t \in Producers : ret[t] = -ENOSPC

\* C5: every produce call eventually returns, whether or not a consumer
\* ever runs: here no consumer runs, and every producer that is in a call
\* keeps taking steps.
C5_ProduceReturns ==
    \A t \in Producers : (pc[t] # "idle") ~> (pc[t] = "idle")

\* C5, the retry: a producer whose cmpxchg of producer_head failed goes
\* round the loop with p re-read from producer_head
C5_RetryRereads ==
    [][\A t \in Producers :
          (pc[t] = "p79" /\ pc'[t] = "p75") => lp'[t] = r.producer_head]_vars

\* C6: a produce call that returned -ENOSPC did not change the ring: none
\* of its steps changed producer_head, producer_tail, consumer_head or a slot.
C6_FullNoSideEffect ==
    \A t \in Producers :
        (pc[t] = "idle" /\ op[t] = "produce" /\ ret[t] = -ENOSPC) => ~wrote[t]

\* C6's case: a produce call was refused on a ring of two slots while
\* another producer is between claim and commit
C6_Witness ==
    /\ phase = "live" /\ r.size = 2
    /\ \E t, u \in Producers :
          /\ pc[t] = "idle" /\ op[t] = "produce" /\ ret[t] = -ENOSPC
          /\ pc[u] \in {"p96", "p100", "p104"}

\* C7: on a constructed ring consumer_head <= producer_tail <= producer_head,
\* whatever produce and consume calls interleave, and with a sole consumer
\* that peeks and discards only after a peek that returned an element.
C7_CounterOrder ==
    Constructed => /\ r.consumer_head <= r.producer_tail
                   /\ r.producer_tail <= r.producer_head

\* C7's case: the sole consumer has just discarded an element, and the
\* three counters are strictly apart
C7_Witness ==
    /\ sc /\ phase = "live"
    /\ pc[SoleConsumer] = "idle" /\ op[SoleConsumer] = "discard"
    /\ 0 < r.consumer_head
    /\ r.consumer_head < r.producer_tail
    /\ r.producer_tail < r.producer_head

\* n is a power of two
PowerOfTwo(n) == \E k \in 0..30 : n = 2^k

\* C8: mpmc_ptr_ring_init returns -EINVAL for every size that is not a power
\* of two, having obtained no storage and written nothing of the ring; for a
\* power of two, when kcalloc succeeds, it returns 0 and leaves the three
\* counters 0 and size null slots.
C8_InitCapacity ==
    phase # "uninit" =>
        IF ~PowerOfTwo(init_arg.size)
        THEN init_ret = -EINVAL /\ r = Uninit /\ allocs = 0
        ELSE init_arg.ok =>
                /\ init_ret = 0 /\ allocs = 1
                /\ r.size = init_arg.size
                /\ r.consumer_head = 0
                /\ r.producer_head = 0
                /\ r.producer_tail = 0
                /\ r.queue = [i \in 1..init_arg.size |-> NULL]

\* C8's case: init was called with size 5 and refused it
C8_Witness ==
    phase = "failed" /\ init_arg.size = 5 /\ init_ret = -EINVAL

\* C9: cleanup with a destructor on a quiesced ring that holds K items calls
\* the destructor on exactly these K values, once each, all of them distinct
\* values that produce calls enqueued, and then calls kfree once.
C9_TeardownDestroys ==
    /\ (phase \in {"cleanup", "freed"} /\ destroy) =>
          /\ Len(destroyed) <= Len(held)
          /\ \A k \in 1..Len(destroyed) : destroyed[k] = held[k]
    /\ phase = "cleanup" => frees = 0
    /\ (phase = "freed" /\ destroy) =>
          /\ destroyed = held
          /\ Len(held) = r.producer_tail - (r.consumer_head - Len(destroyed))
          /\ \A j, k \in 1..Len(destroyed) : j # k => destroyed[j] # destroyed[k]
          /\ \A k \in 1..Len(destroyed) : destroyed[k] \in returned
          /\ frees = 1

\* C9's case: a ring that held two items has been torn down with a
\* destructor
C9_Witness ==
    /\ phase = "freed" /\ destroy
    /\ Len(held) = 2 /\ Len(destroyed) = 2

\* C10: a consume, peek or is_empty call during which consumer_head =
\* producer_tail held at every instant returned NULL (consume, peek) or true
\* (is_empty), and changed neither a counter nor a slot.
C10_EmptyBound ==
    \A t \in Consumers :
        (pc[t] = "idle" /\ emptyAll[t] /\ op[t] \in {"consume", "peek", "empty"})
           => /\ ret[t] = IF op[t] = "empty" THEN True ELSE NULL
              /\ ~wrote[t]

\* C10's case: a consume call and an is_empty call have returned on a ring
\* that was empty throughout, with a slot claimed and not yet committed
C10_Witness ==
    /\ ~sc /\ phase = "live"
    /\ Emp(r) /\ r.producer_tail < r.producer_head
    /\ \E t, u \in Consumers :
          /\ pc[t] = "idle" /\ emptyAll[t] /\ op[t] = "empty"
          /\ pc[u] = "idle" /\ emptyAll[u] /\ op[u] = "consume"

\* C10's case with the sole consumer: a peek has returned on a ring that
\* was empty throughout
C10_WitnessPeek ==
    /\ sc /\ phase = "live"
    /\ pc[SoleConsumer] = "idle" /\ emptyAll[SoleConsumer]
    /\ op[SoleConsumer] = "peek"

\* C11: with a sole consumer and producers running, no step of a peek call
\* changes a counter or a slot, and a peek returns the element of logical
\* index consumer_head: the element the last peek returned, when no
\* discard_one or consume came between.
C11_PeekIdempotent ==
    [][(op'[SoleConsumer] = "peek" /\ pc'[SoleConsumer] # pc[SoleConsumer])
          => /\ r' = r
             /\ pc'[SoleConsumer] = "idle"
                   => /\ peekVal # NULL => ret'[SoleConsumer] = peekVal
                      /\ ret'[SoleConsumer] # NULL
                            => ret'[SoleConsumer] = claimed[r.consumer_head + 1]
      ]_vars

\* C11's case: a peek has returned an element, producers have committed
\* another one since and one more is being written, and a second peek is
\* about to read the slot
C11_Witness ==
    /\ sc /\ phase = "live"
    /\ pc[SoleConsumer] = "k194" /\ peekVal # NULL
    /\ r.producer_tail - r.consumer_head >= 2
    /\ \E t \in Producers : pc[t] \in {"p96", "p100", "p104"}

\* C12: when init fails with -ENOMEM the ring structure is as it was before
\* the call (size and the three counters not written) and no storage is
\* held.
C12_NoPartialState ==
    init_ret = -ENOMEM => r = Uninit /\ allocs = frees

\* C13: on a live ring producer_tail only ever changes from p to p + 1, in a
\* step of the producer that claimed logical index p, whose value is then
\* already in slot p mod capacity.
C13_CommitOrder ==
    [][(phase = "live" /\ r'.producer_tail # r.producer_tail)
          => /\ r'.producer_tail = r.producer_tail + 1
             /\ \E t \in Producers :
                   /\ pc[t] = "p104" /\ pc'[t] = "idle"
                   /\ lp[t] = r.producer_tail
                   /\ claimed[r.producer_tail + 1] = lptr[t]
                   /\ r.queue[Slot(r.producer_tail)] = lptr[t]
      ]_vars

\* C13's case: after a first commit, the producer that claimed the later
\* index has finished its slot write while the claimant of the earlier
\* index has not written yet
C13_Witness ==
    /\ r.producer_tail >= 1
    /\ \E t, u \in Producers :
          /\ pc[t] = "p96" /\ lp[t] = r.producer_tail
          /\ pc[u] = "p100" /\ lp[u] = r.producer_tail + 1

\* C14: while the ring has its storage, slot i mod capacity holds the value
\* of the claimant of i for every i in [consumer_head, producer_tail), and a
\* consume call whose consumer_head compare-and-swap is about to succeed
\* holds the value of the index it removes.
C14_SlotsHoldClaimed ==
    phase \in {"live", "cleanup"}
       => /\ \A i \in r.consumer_head .. (r.producer_tail - 1) :
                r.queue[Slot(i)] = claimed[i + 1]
          /\ \A t \in Threads :
                (pc[t] = "c131" /\ lc[t] = r.consumer_head)
                   => lptr[t] = claimed[lc[t] + 1]

\* C14's case: on a ring of two slots the third element sits in a slot used
\* before, and a consumer has read it and is about to remove it
C14_Witness ==
    /\ phase = "live" /\ r.size = 2
    /\ r.consumer_head = 2 /\ r.producer_tail = 3
    /\ \E t \in Consumers : pc[t] = "c131" /\ lc[t] = r.consumer_head

\* a producer between its claim and its commit: it may write its slot
Claiming(t) == pc[t] \in {"p96", "p100", "p104"}

\* C15: two producers between claim and commit hold different logical
\* indices of [producer_tail, producer_head) and so different slots, and no
\* index of that range shares its slot with another index of
\* [consumer_head, producer_head).
C15_ExclusiveSlots ==
    phase = "live"
       => /\ \A t \in Producers :
                Claiming(t) => lp[t] \in r.producer_tail .. (r.producer_head - 1)
          /\ \A t, u \in Producers :
                (t # u /\ Claiming(t) /\ Claiming(u))
                   => lp[t] # lp[u] /\ Slot(lp[t]) # Slot(lp[u])
          /\ \A i \in r.producer_tail .. (r.producer_head - 1) :
                \A j \in r.consumer_head .. (r.producer_head - 1) :
                   i # j => Slot(i) # Slot(j)

\* C15's case: two producers are about to write their slots while a
\* committed element is still unconsumed
C15_Witness ==
    /\ phase = "live"
    /\ r.consumer_head < r.producer_tail
    /\ r.producer_head = r.producer_tail + 2
    /\ \A t \in Producers : pc[t] = "p96"

\* C16: once the ring is constructed, producer_head - consumer_head is at
\* most capacity - 1 (consumer_head never overtakes producer_head), and a
\* producer whose claim compare-and-swap from p is about to succeed has
\* p - consumer_head < capacity - 1.
C16_ClaimBound ==
    Constructed
       => /\ r.consumer_head <= r.producer_head
          /\ r.producer_head - r.consumer_head <= r.size - 1
          /\ \A t \in Producers :
                (pc[t] = "p79" /\ lp[t] = r.producer_head)
                   => USub(lp[t], r.consumer_head) < r.size - 1

\* C16's case: capacity - 1 indices are claimed, the last of them not yet
\* committed, elements have been consumed before, and another producer has
\* found no room
C16_Witness ==
    /\ phase = "live" /\ r.size >= 2
    /\ r.consumer_head >= 1
    /\ r.producer_head - r.consumer_head = r.size - 1
    /\ r.producer_tail < r.producer_head
    /\ \E t \in Producers : pc[t] = "p85"

C18_NoSpuriousFull ==
    \A t \in Producers :
       (pc[t] = "idle" /\ op[t] = "produce" /\ ret[t] = -ENOSPC)
          => fullSeen[t]

\* C18's case: a produce call on a ring of more than one slot returned
\* -ENOSPC after elements were consumed, and the ring has room again
C18_Witness ==
    /\ phase = "live" /\ r.size >= 2
    /\ r.consumer_head >= 1 /\ ~Full(r)
    /\ \E t \in Producers :
          pc[t] = "idle" /\ op[t] = "produce" /\ ret[t] = -ENOSPC

\* C19: when mpmc_ptr_ring_empty has returned true, there was an instant
\* between its first read and its return at which producer_tail =
\* consumer_head.
C19_TrueSnapshot ==
    (pc[Poller] = "idle" /\ op[Poller] = "empty" /\ ret[Poller] = True)
       => emptySeen

\* what removing the oldest element of ring q gives: the element of logical
\* index consumer_head, and the ring with consumer_head advanced by one
Removed(q) ==
    [ret  |-> q.queue[Slot(q.consumer_head)],
     ring |-> [q EXCEPT !.consumer_head = @ + 1]]

\* C20: with a sole consumer and producers running, a peek that returns an
\* element returns the oldest one and changes nothing, the discard_one that
\* follows advances consumer_head by one and nothing else with that element
\* still the oldest, a successful consume returns the oldest element and
\* advances consumer_head by one and nothing else, and peek and consume
\* return NULL in the same case: producer_tail = consumer_head at their read
\* of producer_tail.
C20_PeekDiscardIsConsume ==
    [][sc =>
         /\ (pc[SoleConsumer] = "k194" /\ pc'[SoleConsumer] = "idle")
               => /\ r' = r
                  /\ ret'[SoleConsumer] # NULL
                  /\ ret'[SoleConsumer] = Removed(r).ret
         /\ (peeked /\ ~peeked' /\ pc'[SoleConsumer] = "idle")
               => /\ peekVal # NULL
                  /\ peekVal = Removed(r).ret
                  /\ r' = Removed(r).ring
         /\ (pc[SoleConsumer] = "c131" /\ pc'[SoleConsumer] # "c131")
               => /\ pc'[SoleConsumer] = "idle"
                  /\ ret'[SoleConsumer] # NULL
                  /\ ret'[SoleConsumer] = Removed(r).ret
                  /\ r' = Removed(r).ring
         /\ (pc[SoleConsumer] \in {"k185", "c120"}
                /\ pc'[SoleConsumer] # pc[SoleConsumer])
               => /\ r' = r
                  /\ (pc'[SoleConsumer] = "idle") = Emp(r)
                  /\ pc'[SoleConsumer] = "idle" => ret'[SoleConsumer] = NULL
      ]_vars

\* C20's case: the sole consumer has removed one element with consume and
\* the next with peek and discard_one, while a producer is in a call
C20_Witness ==
    /\ sc /\ phase = "live"
    /\ pc[SoleConsumer] = "idle" /\ op[SoleConsumer] = "discard"
    /\ r.consumer_head = 2 /\ Len(consumed) = 1
    /\ \E t \in Producers : pc[t] # "idle"

====
